---- MODULE Spec2Model ----
(***************************************************************************)
(* Model of the CSV cache layer for time series adapters                   *)
(* (tools/cache_base.py, CacheBackedTimeseriesAdapterBase) together with    *)
(* the EIA adapter's hooks (tools/eia_adapter.py).                          *)
(*                                                                         *)
(* A date is a day number.  A data frame is a sequence of rows             *)
(* [date, series, value]; series = NoSeries stands for a missing (NaN)      *)
(* series cell, which is also what a frame without a series column gives    *)
(* once it is concatenated with one that has it.                            *)
(***************************************************************************)
EXTENDS Integers, Sequences, FiniteSets, TLC

\* ------------------------------------------------------------------ bounds
MaxDay == 4
MaxRev == 2

Days == 1..MaxDay
Values == 1..MaxRev
NaT == 0
NoSeries == "-"

\* min_points: the default sample-size threshold of the frequency inference
MinPoints == 12

\* ------------------------------------------------------------ sequences
RECURSIVE SeqToSet(_)
SeqToSet(s) == IF s = <<>> THEN {} ELSE {Head(s)} \cup SeqToSet(Tail(s))

Min(S) == CHOOSE x \in S : \A y \in S : x <= y
Max(S) == CHOOSE x \in S : \A y \in S : x >= y

Dates(rows) == {rows[i].date : i \in 1..Len(rows)}

\* df[(d >= start) & (d <= end)]: the rows dated within the bounds, in their
\* order
RowsBetween(rows, lo, hi) == SelectSeq(rows, LAMBDA r : r.date >= lo /\ r.date <= hi)

\* DataFrame.sort_values(date_col): ascending by date; rows of one date keep
\* their relative order
RECURSIVE InsertByDate(_, _)
InsertByDate(sorted, r) ==
    IF sorted = <<>> THEN <<r>>
    ELSE IF Head(sorted).date <= r.date
         THEN <<Head(sorted)>> \o InsertByDate(Tail(sorted), r)
         ELSE <<r>> \o sorted

RECURSIVE SortByDate(_)
SortByDate(rows) ==
    IF rows = <<>> THEN <<>>
    ELSE InsertByDate(SortByDate(SubSeq(rows, 1, Len(rows) - 1)), rows[Len(rows)])

\* a set of integers as an ascending sequence (DatetimeIndex.sort_values)
RECURSIVE SortedSeq(_)
SortedSeq(S) == IF S = {} THEN <<>> ELSE <<Min(S)>> \o SortedSeq(S \ {Min(S)})

\* --------------------------------------------------------- normalisation
\* A raw frame (rows as the provider sends them, or as read from the CSV
\* file) holds its dates as text: <<"iso", d>> is the ISO text of day d, any
\* other text does not parse.
IsoFormat(d) == <<"iso", d>>

\* pd.to_datetime(..., errors="coerce")
ToDatetime(cell) == IF cell[1] = "iso" THEN cell[2] ELSE NaT

\* The columns of a frame are the fields of its rows.  A frame without rows
\* comes with the columns date and value (_fetch_timeseries builds it so; an
\* empty cache is not normalised at all).
\* _normalize_timeseries_df, the renaming: a frame without a date column has
\* its first alternate column ("period") renamed to date
RenameAlternates(raw) ==
    [i \in 1..Len(raw) |->
        IF "date" \notin DOMAIN raw[i] /\ "period" \in DOMAIN raw[i]
        THEN [date |-> raw[i].period, series |-> raw[i].series, value |-> raw[i].value]
        ELSE raw[i]]

\* the condition of its ValueError: after the renaming the frame lacks the
\* date column or the value column
MissingColumns(raw) ==
    /\ raw # <<>>
    /\ \/ "date" \notin DOMAIN RenameAlternates(raw)[1]
       \/ "value" \notin DOMAIN RenameAlternates(raw)[1]

\* faulty variant of the normalisation: a frame without the columns counts as
\* a frame without rows
NormalizeTimeseriesDfLenient(raw) ==
    IF MissingColumns(raw) THEN [ok |-> TRUE, rows |-> <<>>]
    ELSE LET named == RenameAlternates(raw)
         IN [ok |-> TRUE,
             rows |-> SortByDate(SelectSeq(
                         [i \in 1..Len(named) |->
                             [named[i] EXCEPT !.date = ToDatetime(named[i].date)]],
                         LAMBDA r : r.date # NaT))]

\* _normalize_timeseries_df: ok = FALSE when it raises; else the dates parsed,
\* the rows whose date does not parse dropped, sorted by date
NormalizeTimeseriesDf(raw) ==
    IF MissingColumns(raw) THEN [ok |-> FALSE, rows |-> <<>>]
    ELSE LET named == RenameAlternates(raw)
         IN [ok |-> TRUE,
             rows |-> SortByDate(SelectSeq(
                         [i \in 1..Len(named) |->
                             [named[i] EXCEPT !.date = ToDatetime(named[i].date)]],
                         LAMBDA r : r.date # NaT))]

\* EIAAdapter._normalize_df (when _normalize_timeseries_df does not raise):
\* its rows, those without a date dropped, sorted by date again
NormalizeDf(raw) ==
    SortByDate(SelectSeq(NormalizeTimeseriesDf(raw).rows, LAMBDA r : r.date # NaT))

\* _norm_date: a request date as a calendar day
NormDate(x) == x

\* ------------------------------------------------------------- dedupe key
\* EIAAdapter._dedupe_cols: (date, series) when the frame has a series
\* column, (date) otherwise
HasSeriesCol(rows) == \E i \in 1..Len(rows) : rows[i].series # NoSeries

DedupeKey(rows, r) ==
    IF HasSeriesCol(rows) THEN <<r.date, r.series>> ELSE <<r.date>>

\* DataFrame.drop_duplicates(subset=dedupe_cols, keep="last")
DropDuplicatesKeepLast(rows) ==
    LET keep(i) == \A j \in (i + 1)..Len(rows) :
                      DedupeKey(rows, rows[j]) # DedupeKey(rows, rows[i])
        RECURSIVE Pick(_)
        Pick(i) == IF i > Len(rows) THEN <<>>
                   ELSE (IF keep(i) THEN <<rows[i]>> ELSE <<>>) \o Pick(i + 1)
    IN Pick(1)

\* faulty variants of the merge: the first occurrence of a key wins / nothing is dropped
DropDuplicatesKeepFirst(rows) ==
    LET keep(i) == \A j \in 1..(i - 1) :
                      DedupeKey(rows, rows[j]) # DedupeKey(rows, rows[i])
        RECURSIVE Pick(_)
        Pick(i) == IF i > Len(rows) THEN <<>>
                   ELSE (IF keep(i) THEN <<rows[i]>> ELSE <<>>) \o Pick(i + 1)
    IN Pick(1)

MergeCacheKeepFirst(oldNone, old, new) ==
    LET merged == IF oldNone \/ old = <<>> THEN new ELSE old \o new
    IN SortByDate(DropDuplicatesKeepFirst(merged))

MergeCacheNoDedupe(oldNone, old, new) ==
    LET merged == IF oldNone \/ old = <<>> THEN new ELSE old \o new
    IN SortByDate(merged)

\* faulty variant of the merge: the table is rebuilt from the new batch alone
MergeCacheNewOnly(oldNone, old, new) ==
    SortByDate(DropDuplicatesKeepLast(new))

\* _merge_cache
MergeCache(oldNone, old, new) ==
    LET merged == IF oldNone \/ old = <<>> THEN new ELSE old \o new
    IN SortByDate(DropDuplicatesKeepLast(merged))

\* faulty variant of the slice: the end of the window is not applied
SliceWindowOpenEnd(dfNone, rows, start, end) ==
    IF dfNone \/ rows = <<>> THEN <<>>
    ELSE SortByDate(SelectSeq(rows, LAMBDA r : r.date >= start))

\* _slice_window
SliceWindow(dfNone, rows, start, end) ==
    IF dfNone \/ rows = <<>> THEN <<>>
    ELSE SortByDate(RowsBetween(rows, start, end))

\* ------------------------------------------------- frequency inference
NoFreq == [freq |-> "none", confNum |-> 0, confDen |-> 1, step_days |-> 0, n_points |-> 0]

\* faulty variants of the confidence: not clamped / without the penalty
ConfidenceUnclamped(cnt, total, n, minPoints) ==
    [num |-> IF n < minPoints THEN 4 * cnt - total ELSE 4 * cnt, den |-> 4 * total]

ConfidenceNoPenalty(cnt, total, n, minPoints) ==
    [num |-> 4 * cnt, den |-> 4 * total]

\* confidence = max(0, min(1, mode_share - penalty)) as the fraction
\* confNum / confDen, with mode_share = cnt / total and penalty = 1/4 or 0
Confidence(cnt, total, n, minPoints) ==
    LET num == IF n < minPoints THEN 4 * cnt - total ELSE 4 * cnt
        den == 4 * total
    IN [num |-> IF num < 0 THEN 0 ELSE IF num > den THEN den ELSE num, den |-> den]

\* np.diff over the sorted distinct dates, keeping the positive deltas
PositiveDiffs(d) ==
    SelectSeq([i \in 1..(Len(d) - 1) |-> d[i + 1] - d[i]], LAMBDA x : x > 0)

CountOf(diffs, v) == Cardinality({i \in 1..Len(diffs) : diffs[i] = v})

\* faulty variant of the mode: the largest of the most frequent deltas
ModeStepLargest(diffs) ==
    LET vals == SeqToSet(diffs)
        best == Max({CountOf(diffs, v) : v \in vals})
    IN Max({v \in vals : CountOf(diffs, v) = best})

\* vals[np.argmax(counts)] over np.unique(diffs): the smallest of the most
\* frequent deltas
ModeStep(diffs) ==
    LET vals == SeqToSet(diffs)
        best == Max({CountOf(diffs, v) : v \in vals})
    IN Min({v \in vals : CountOf(diffs, v) = best})

\* faulty variant of the classification: the bounds of monthly excluded
ClassifyMonthlyNarrow(step) ==
    IF step = 1 THEN "daily"
    ELSE IF step = 7 THEN "weekly"
    ELSE IF 28 < step /\ step < 31 THEN "monthly"
    ELSE "irregular"

Classify(step) ==
    IF step = 1 THEN "daily"
    ELSE IF step = 7 THEN "weekly"
    ELSE IF 28 <= step /\ step <= 31 THEN "monthly"
    ELSE "irregular"

\* faulty variant of the date preparation: the dates sorted, duplicates kept
AllDates(rows) ==
    LET dated == SortByDate(SelectSeq(rows, LAMBDA r : r.date # NaT))
    IN [i \in 1..Len(dated) |-> dated[i].date]

\* to_datetime(...).dropna().sort_values().unique(): the distinct dates,
\* ascending
DistinctDates(rows) == SortedSeq(Dates(rows) \ {NaT})

\* _infer_frequency_daily_base of the cache layer
InferFrequencyDailyBase(rows, minPoints) ==
    LET d == DistinctDates(rows)
        n == Len(d)
        diffs == PositiveDiffs(d)
    IN IF n < 2 \/ diffs = <<>>
       THEN [freq |-> "irregular", confNum |-> 0, confDen |-> 1,
             step_days |-> 0, n_points |-> n]
       ELSE LET step == ModeStep(diffs)
                conf == Confidence(CountOf(diffs, step), Len(diffs), n, minPoints)
            IN [freq |-> Classify(step), confNum |-> conf.num, confDen |-> conf.den,
                step_days |-> step, n_points |-> n]

\* utils/frequency.py: step_days of a monthly cadence
MonthlyStepDays == 30

\* faulty variant of the standalone inferencer's step: the modal delta always
StandaloneStepDaysModal(cadence, mode_step) == mode_step

\* FrequencyInfo.step_days of the standalone inferencer
StandaloneStepDays(cadence, mode_step) ==
    IF cadence = "monthly" THEN MonthlyStepDays ELSE mode_step

\* FrequencyInfo.pandas_freq
PandasFreq(cadence) ==
    CASE cadence = "daily" -> "D"
      [] cadence = "weekly" -> "W"
      [] cadence = "monthly" -> "MS"
      [] OTHER -> "none"

\* utils/frequency.py, infer_frequency_daily_base
InferFrequencyStandalone(rows, minPoints) ==
    IF rows = <<>>
    THEN [freq |-> "irregular", pandas_freq |-> "none", confNum |-> 0, confDen |-> 1,
          step_days |-> 0, n_points |-> 0]
    ELSE LET d == DistinctDates(rows)
             n == Len(d)
             diffs == PositiveDiffs(d)
         IN IF n < 2 \/ diffs = <<>>
            THEN [freq |-> "irregular", pandas_freq |-> "none", confNum |-> 0,
                  confDen |-> 1, step_days |-> 0, n_points |-> n]
            ELSE LET mode_step == ModeStep(diffs)
                     conf == Confidence(CountOf(diffs, mode_step), Len(diffs), n, minPoints)
                     cadence == Classify(mode_step)
                 IN [freq |-> cadence, pandas_freq |-> PandasFreq(cadence),
                     confNum |-> conf.num, confDen |-> conf.den,
                     step_days |-> StandaloneStepDays(cadence, mode_step),
                     n_points |-> n]

\* --------------------------------------------------------- gap detection
\* _compress_dates_to_segments: the loop over the sorted missing dates
RECURSIVE CompressLoop(_, _, _, _)
CompressLoop(rest, seg_start, prev, segs) ==
    IF rest = <<>> THEN Append(segs, <<seg_start, prev>>)
    ELSE IF Head(rest) - prev = 1
         THEN CompressLoop(Tail(rest), seg_start, Head(rest), segs)
         ELSE CompressLoop(Tail(rest), Head(rest), Head(rest),
                           Append(segs, <<seg_start, prev>>))

\* faulty variant of the compression: one segment from the first missing
\* date to the last
CompressDatesToOneSpan(missingDates) ==
    IF missingDates = {} THEN <<>>
    ELSE << <<Min(missingDates), Max(missingDates)>> >>

CompressDatesToSegments(missingDates) ==
    IF missingDates = {} THEN <<>>
    ELSE LET m == SortedSeq(missingDates)
         IN CompressLoop(Tail(m), m[1], m[1], <<>>)

\* _missing_segments_daily
MissingSegmentsDaily(in_win, start, end) ==
    LET observed == Dates(in_win)
        expected == start..end
    IN CompressDatesToSegments(expected \ observed)

\* faulty variant of the edge fill: nothing is fetched after the latest
\* observed date
EdgeSegmentsLeadingOnly(in_win, start, end) ==
    LET min_d == Min(Dates(in_win))
    IN IF start < min_d THEN <<<<start, min_d>>>> ELSE <<>>

\* the edge-fill branch of _missing_segments
EdgeSegments(in_win, start, end) ==
    LET min_d == Min(Dates(in_win))
        max_d == Max(Dates(in_win))
    IN (IF start < min_d THEN <<<<start, min_d>>>> ELSE <<>>)
       \o (IF end > max_d THEN <<<<max_d, end>>>> ELSE <<>>)

\* faulty variants of the gap detection: the whole window always / nothing once the
\* cache has rows
MissingSegmentsWholeWindow(dfNone, rows, start, end, freq, allow) ==
    <<<<start, end>>>>

MissingSegmentsNever(dfNone, rows, start, end, freq, allow) ==
    IF dfNone \/ rows = <<>> THEN <<<<start, end>>>> ELSE <<>>

\* faulty variant of the gap detection: a cache with rows, none of them in
\* the window, gives the policy's segments of no observed date (none)
MissingSegmentsSkipsEmptyWindow(dfNone, rows, start, end, freq, allow) ==
    IF dfNone \/ rows = <<>> THEN <<<<start, end>>>>
    ELSE LET in_win == RowsBetween(rows, start, end)
         IN IF in_win = <<>> THEN <<>>
            ELSE IF allow /\ freq.freq = "daily"
                 THEN MissingSegmentsDaily(in_win, start, end)
                 ELSE EdgeSegments(in_win, start, end)

\* _missing_segments
MissingSegments(dfNone, rows, start, end, freq, allow) ==
    IF dfNone \/ rows = <<>> THEN <<<<start, end>>>>
    ELSE LET in_win == RowsBetween(rows, start, end)
         IN IF in_win = <<>> THEN <<<<start, end>>>>
            ELSE IF allow /\ freq.freq = "daily"
                 THEN MissingSegmentsDaily(in_win, start, end)
                 ELSE EdgeSegments(in_win, start, end)

\* ------------------------------------------------------------ cache paths
\* A string is the sequence of its characters.
MaxKeyLen == 2

\* the code point of a character
Code(c) ==
    CASE c = " " -> 32
      [] c = "/" -> 47
      [] c = "=" -> 61
      [] c = "_" -> 95
      [] c = "a" -> 97
      [] c = "b" -> 98
      [] OTHER -> 127

\* s < t as Python orders strings
RECURSIVE StrLess(_, _)
StrLess(s, t) ==
    IF t = <<>> THEN FALSE
    ELSE IF s = <<>> THEN TRUE
    ELSE IF Head(s) = Head(t) THEN StrLess(Tail(s), Tail(t))
    ELSE Code(Head(s)) < Code(Head(t))

\* sorted(...) of a set of strings
RECURSIVE SortedStrings(_)
SortedStrings(S) ==
    IF S = {} THEN <<>>
    ELSE LET least == CHOOSE x \in S : \A y \in S \ {x} : StrLess(x, y)
         IN <<least>> \o SortedStrings(S \ {least})

\* a dict is the sequence of its (key, value) items in insertion order
DictKeys(parts) == [i \in 1..Len(parts) |-> parts[i][1]]

DictGet(parts, k) ==
    parts[CHOOSE i \in 1..Len(parts) : parts[i][1] = k][2]

\* sep.join(elems)
RECURSIVE Join(_, _)
Join(elems, sep) ==
    IF elems = <<>> THEN <<>>
    ELSE IF Len(elems) = 1 THEN elems[1]
    ELSE elems[1] \o sep \o Join(Tail(elems), sep)

\* str.replace(from, to) for single characters
ReplaceChar(s, from, to) == [i \in 1..Len(s) |-> IF s[i] = from THEN to ELSE s[i]]

\* the file name of _cache_path from the element order given
PathOfElems(metric_key, parts, keys) ==
    LET elems == <<metric_key>>
                 \o [i \in 1..Len(keys) |-> keys[i] \o <<"=">> \o DictGet(parts, keys[i])]
        safe == ReplaceChar(ReplaceChar(Join(elems, <<"_", "_">>), "/", "_"), " ", "_")
    IN [dir |-> "cache_dir", name |-> safe \o <<".", "c", "s", "v">>]

\* faulty variant of the path: the facets in the caller's order
CachePathUnsorted(metric_key, parts) ==
    PathOfElems(metric_key, parts, DictKeys(parts))

\* _cache_path
CachePath(metric_key, parts) ==
    PathOfElems(metric_key, parts, SortedStrings(SeqToSet(DictKeys(parts))))

NoPath == [dir |-> "", name |-> <<>>]

\* a request as ng_henry_hub_spot makes it: a metric key, no facet
PlainRequest == [metric_key |-> <<"a">>, parts |-> <<>>]

\* ------------------------------------------------------------ cache files
\* A path is its file name split at the dots.
CacheFile == <<"henry_hub_spot", "csv">>

\* Path.with_suffix(".tmp.csv"): the last suffix replaced
WithSuffixTmpCsv(path) == SubSeq(path, 1, Len(path) - 1) \o <<"tmp", "csv">>

\* faulty variant of the save: the table is written straight to the cache path
SaveInPlace(path) == path

\* _save_cache: the temporary path the table is written to
SaveTmpPath(path) == WithSuffixTmpCsv(path)

Paths == {CacheFile, SaveTmpPath(CacheFile)}

\* A file: the lines written so far (the header first) and whether the
\* writer finished it.
Header == [date |-> <<"header", 0>>, series |-> NoSeries, value |-> 0]
NoFile == [exists |-> FALSE, lines |-> <<>>, complete |-> TRUE]

\* DataFrame.to_csv(index=False): the header, then one line per row with the
\* date as ISO text
ToCsv(rows) ==
    <<Header>> \o [i \in 1..Len(rows) |-> [rows[i] EXCEPT !.date = IsoFormat(rows[i].date)]]

FileOf(rows) == [exists |-> TRUE, lines |-> ToCsv(rows), complete |-> TRUE]

\* _load_cache: None when the file is missing or cannot be read, else the raw
\* rows below the header
LoadCache(files, path) ==
    IF ~files[path].exists \/ files[path].lines = <<>>
    THEN [none |-> TRUE, raw |-> <<>>, complete |-> TRUE]
    ELSE [none |-> FALSE, raw |-> Tail(files[path].lines),
          complete |-> files[path].complete]

\* faulty variant of the replace: the temporary name stays
ReplaceOntoKeepingTmp(fs, tmp, path) ==
    [p \in DOMAIN fs |-> IF p = path THEN fs[tmp] ELSE fs[p]]

\* faulty variant of the save: the other files of the directory are removed first
WriteTmpClearingTarget(fs, tmp, lines, k) ==
    [p \in DOMAIN fs |->
        IF p = tmp THEN [exists |-> TRUE, lines |-> SubSeq(lines, 1, k),
                         complete |-> (k = Len(lines))]
        ELSE NoFile]

\* df.to_csv(tmp) so far: the file created or truncated, its first k lines on
\* disk
WriteTmp(fs, tmp, lines, k) ==
    [fs EXCEPT ![tmp] = [exists |-> TRUE, lines |-> SubSeq(lines, 1, k),
                         complete |-> (k = Len(lines))]]

\* tmp.replace(path): the target now names the temporary file's content and
\* the temporary name is gone
ReplaceOnto(fs, tmp, path) ==
    [p \in DOMAIN fs |-> IF p = path THEN fs[tmp]
                         ELSE IF p = tmp THEN NoFile ELSE fs[p]]

\* --------------------------------------------------------------- provider
\* What _fetch_timeseries gets from the client for (start, end): ClientRows.  The
\* provider holds one value per day of prov.days; it revises the value of
\* RevisedDay, the others stay at 1.  A provider with multi sends two series
\* per day; one with wide ignores the bounds by a day on each side, sends
\* newest first and adds an undated row.
RevisedDay == Min(Days) + 1

ValueOfDay(d, v) == IF d = RevisedDay THEN v ELSE 1

RowsOfDay(d, multi, v) ==
    IF multi THEN << [date |-> IsoFormat(d), series |-> "A", value |-> ValueOfDay(d, v)],
                     [date |-> IsoFormat(d), series |-> "B", value |-> ValueOfDay(d, v)] >>
    ELSE << [date |-> IsoFormat(d), series |-> NoSeries, value |-> ValueOfDay(d, v)] >>

RECURSIVE RowsOfDays(_, _, _)
RowsOfDays(ds, multi, v) ==
    IF ds = <<>> THEN <<>>
    ELSE RowsOfDay(Head(ds), multi, v) \o RowsOfDays(Tail(ds), multi, v)

Reverse(s) == [i \in 1..Len(s) |-> s[Len(s) + 1 - i]]

ClientRows(prov, v, s, e) ==
    LET lo == IF prov.wide THEN s - 1 ELSE s
        hi == IF prov.wide THEN e + 1 ELSE e
        ds == SortedSeq({d \in prov.days : lo <= d /\ d <= hi})
    IN IF prov.wide
       THEN RowsOfDays(Reverse(ds), prov.multi, v)
            \o << [date |-> <<"n/a", 0>>, series |-> NoSeries, value |-> v] >>
       ELSE RowsOfDays(ds, prov.multi, v)

\* _fetch_timeseries: the client's rows as a frame; its date column has the
\* name the client gives it
FetchTimeseries(prov, v, s, e) ==
    LET rows == ClientRows(prov, v, s, e)
    IN [i \in 1..Len(rows) |->
           IF prov.col = "date" THEN rows[i]
           ELSE IF prov.col = "period"
                THEN [period |-> rows[i].date, series |-> rows[i].series,
                      value |-> rows[i].value]
                ELSE [day |-> rows[i].date, series |-> rows[i].series,
                      value |-> rows[i].value]]

\* ------------------------------------------------------------------ state
VARIABLES
    remote,            \* the provider: [days, multi, wide]
    rev,               \* the revision the provider's values are at
    revised,           \* the provider revised its values since the previous call began
    files,             \* the cache directory: path -> file
    pc,                \* where the call stands
    start, end, allow, \* the arguments of the current call
    repeat,            \* the arguments repeat those of the successful call just before
    within,            \* the window lies in that of the successful call just before
    cacheNone,         \* df_cache is None
    df_cache,          \* the cache as loaded (and normalised)
    freq,              \* the inferred frequency (NoFreq: None)
    missing,           \* the segments to fetch
    fetched_segments,  \* the report's list: one entry per fetch call made
    df_merged,         \* the running merged table
    df_out,            \* the returned frame
    cache_hit,         \* the report's flag
    preFile,           \* the cache file as it was when the call began
    wrote,             \* the call changed the cache file
    fetchFailed,       \* a fetch of the call raised
    persistFailed,     \* the save of the call raised
    readerView,        \* what another reader's _load_cache returned during the save
    requests,          \* two requests' keys: [metric_key, parts], parts in the caller's order
    cache_paths,       \* the cache path resolved for each (NoPath: not yet)
    sample,            \* an input of the frequency inference: [rows, min_points]
    inferred,          \* what the two inferencers returned for it (NoResult: not yet)
    other              \* a second call for the same key, by another process

vars == << sample, inferred, other, requests, cache_paths, remote, rev, revised, files, pc, start, end, allow, repeat, within,
           cacheNone, df_cache, freq, missing, fetched_segments, df_merged,
           df_out, cache_hit, preFile, wrote, fetchFailed, persistFailed,
           readerView >>

NoSample == [rows |-> <<>>, min_points |-> MinPoints]

NoResult == [freq |-> "not yet"]

NoCall ==
    [pc |-> "idle", start |-> 1, end |-> 1, allow |-> TRUE, cacheNone |-> TRUE,
     df_cache |-> <<>>, freq |-> NoFreq, missing |-> <<>>, fetched_segments |-> <<>>,
     df_merged |-> <<>>, preFile |-> NoFile, wrote |-> FALSE]

NoView == [loaded |-> FALSE, none |-> TRUE, raw |-> <<>>, complete |-> TRUE]

\* the providers: one that has every day, of each kind, and a plain one with
\* a day missing
Providers ==
    [days : {Days}, multi : BOOLEAN, wide : BOOLEAN, col : {"date"}]
    \cup [days : {Days \ {MaxDay - 1}}, multi : {FALSE}, wide : {FALSE}, col : {"date"}]

Locals0 ==
    /\ start = 1 /\ end = 1 /\ allow = TRUE
    /\ repeat = FALSE /\ within = FALSE
    /\ cacheNone = TRUE
    /\ df_cache = <<>>
    /\ freq = NoFreq
    /\ missing = <<>>
    /\ fetched_segments = <<>>
    /\ df_out = <<>>
    /\ cache_hit = FALSE
    /\ wrote = FALSE
    /\ fetchFailed = FALSE
    /\ persistFailed = FALSE
    /\ readerView = NoView
    /\ requests = << PlainRequest, PlainRequest >>
    /\ cache_paths = << NoPath, NoPath >>
    /\ sample = NoSample
    /\ inferred = [base |-> NoResult, standalone |-> NoResult]
    /\ other = NoCall

\* a new cache directory, no call made yet
Init ==
    /\ remote \in Providers
    /\ rev = 1
    /\ revised = FALSE
    /\ files = [p \in Paths |-> NoFile]
    /\ pc = "idle"
    /\ df_merged = <<>>
    /\ preFile = NoFile
    /\ Locals0

\* df_merged is None: no cache was loaded and nothing was merged yet
MergedNone == cacheNone /\ fetched_segments = <<>>

\* faulty variant of the report: a loaded cache with rows counts as a hit
CacheHitWithoutMissing(none, cache, miss) == ~none /\ cache # <<>>

\* the report's cache_hit
CacheHit(none, cache, miss) == ~none /\ cache # <<>> /\ Len(miss) = 0

\* faulty variant of the persist condition: every call saves
MustPersistAlways(fetched, none) == TRUE

\* "Persist if we had to fetch or cache didn't exist"
MustPersist(fetched, none) == fetched # <<>> \/ none

\* faulty variant: a raising fetch ends the loop and what was merged is saved
AfterFetchFailureBestEffort == "save"

\* where a raising fetch leaves the call: the exception propagates
AfterFetchFailure == "fetch_error"

Ended == pc \in {"done", "fetch_error", "persist_error", "crashed",
                 "cache_error", "normalize_error"}

\* _cached_timeseries up to the first fetch: normalise the dates, load and
\* normalise the cache, infer the frequency, compute the missing segments;
\* with nothing to fetch, also the rest of the call.  The normalisation of a
\* loaded cache that lacks the columns raises: the call ends there.
Enter(s, e, a, again) ==
    /\ LET start_ts == NormDate(s)
           end_ts == NormDate(e)
           loaded == LoadCache(files, CacheFile)
           raises == ~loaded.none /\ loaded.raw # <<>>
                     /\ ~NormalizeTimeseriesDf(loaded.raw).ok
           cache == IF ~loaded.none /\ loaded.raw # <<>> /\ ~raises
                    THEN NormalizeDf(loaded.raw) ELSE <<>>
           f == IF ~loaded.none /\ cache # <<>>
                THEN InferFrequencyDailyBase(cache, MinPoints) ELSE NoFreq
           miss == MissingSegments(loaded.none, cache, start_ts, end_ts, f, a)
           over == miss = <<>> /\ ~MustPersist(<<>>, loaded.none)
       IN /\ start' = start_ts
          /\ end' = end_ts
          /\ allow' = a
          /\ repeat' = (again /\ ~revised /\ start_ts = start /\ end_ts = end)
          /\ within' = again
          /\ cacheNone' = loaded.none
          /\ df_cache' = cache
          /\ freq' = f
          /\ missing' = IF raises THEN <<>> ELSE miss
          /\ fetched_segments' = <<>>
          /\ df_merged' = cache
          /\ pc' = IF raises THEN "cache_error"
                   ELSE IF miss # <<>> THEN "fetch" ELSE IF over THEN "done" ELSE "save"
          /\ df_out' = IF over THEN SliceWindow(loaded.none, cache, start_ts, end_ts)
                       ELSE <<>>
          /\ cache_hit' = (over /\ CacheHit(loaded.none, cache, miss))
    /\ preFile' = files[CacheFile]
    /\ wrote' = FALSE
    /\ fetchFailed' = FALSE
    /\ persistFailed' = FALSE
    /\ revised' = FALSE
    /\ readerView' = NoView
    /\ UNCHANGED << sample, inferred, other, requests, cache_paths, remote, rev, files >>

\* a call, whatever came before
Call(s, e, a) == pc = "idle" /\ Enter(s, e, a, FALSE)

\* the call that follows a successful call at once, with the same key and
\* flag and a window inside that call's window
Recall(s, e) ==
    /\ pc = "done"
    /\ start <= s /\ s <= e /\ e <= end
    /\ Enter(s, e, allow, TRUE)

\* the caller has its result (or its exception); the call's locals are gone
Return ==
    /\ Ended
    /\ pc' = "idle"
    /\ start' = 1 /\ end' = 1 /\ allow' = TRUE
    /\ repeat' = FALSE /\ within' = FALSE
    /\ cacheNone' = TRUE
    /\ df_cache' = <<>>
    /\ freq' = NoFreq
    /\ missing' = <<>>
    /\ fetched_segments' = <<>>
    /\ df_merged' = <<>>
    /\ df_out' = <<>>
    /\ cache_hit' = FALSE
    /\ preFile' = NoFile
    /\ wrote' = FALSE
    /\ fetchFailed' = FALSE
    /\ persistFailed' = FALSE
    /\ readerView' = NoView
    /\ UNCHANGED << sample, inferred, other, requests, cache_paths, remote, rev, revised, files >>

\* faulty variant of the loop: the segments taken from the last to the first
NextSegmentFromLast(miss, log) == miss[Len(miss) - Len(log)]

\* "for seg_start, seg_end in missing": the segment of the turn that follows
\* the turns logged
NextSegment(miss, log) == miss[Len(log) + 1]

\* one turn of the loop: fetch the next segment, normalise the batch, log it,
\* merge it
Fetch ==
    /\ pc = "fetch"
    /\ LET seg == NextSegment(missing, fetched_segments)
           batch == FetchTimeseries(remote, rev, seg[1], seg[2])
           df_new == NormalizeDf(batch)
           log == Append(fetched_segments,
                         [start |-> seg[1], end |-> seg[2], rows |-> Len(df_new)])
       IN /\ NormalizeTimeseriesDf(batch).ok
          /\ fetched_segments' = log
          /\ df_merged' = MergeCache(MergedNone, df_merged, df_new)
          /\ pc' = IF Len(log) < Len(missing) THEN "fetch"
                   ELSE IF MustPersist(log, cacheNone) THEN "save" ELSE "done"
    /\ UNCHANGED << sample, inferred, other, requests, cache_paths, remote, rev, revised, files, start, end, allow, repeat, within,
                    cacheNone, df_cache, freq, missing, df_out, cache_hit, preFile,
                    wrote, fetchFailed, persistFailed, readerView >>

\* the normalisation of the fetched batch raises (the batch lacks the
\* columns): the exception propagates, nothing is logged, merged or saved
NormalizeFail ==
    /\ pc = "fetch"
    /\ LET seg == NextSegment(missing, fetched_segments)
       IN ~NormalizeTimeseriesDf(FetchTimeseries(remote, rev, seg[1], seg[2])).ok
    /\ pc' = "normalize_error"
    /\ UNCHANGED << sample, inferred, other, requests, cache_paths, remote, rev, revised, files, start, end, allow, repeat, within,
                    cacheNone, df_cache, freq, missing, fetched_segments, df_merged,
                    df_out, cache_hit, preFile, wrote, fetchFailed, persistFailed,
                    readerView >>

\* _fetch_timeseries raises
FetchFail ==
    /\ pc = "fetch"
    /\ fetchFailed' = TRUE
    /\ pc' = AfterFetchFailure
    /\ UNCHANGED << sample, inferred, other, requests, cache_paths, remote, rev, revised, files, start, end, allow, repeat, within,
                    cacheNone, df_cache, freq, missing, fetched_segments, df_merged,
                    df_out, cache_hit, preFile, wrote, persistFailed, readerView >>

\* the rest of the call once the table is saved: slice the window, build the
\* report
Finish ==
    /\ df_out' = SliceWindow(MergedNone, df_merged, start, end)
    /\ cache_hit' = CacheHit(cacheNone, df_cache, missing)
    /\ pc' = "done"

\* _save_cache without a failure (to_csv to the temporary path, replace),
\* then the rest of the call
Persist ==
    /\ pc = "save"
    /\ LET tmp == SaveTmpPath(CacheFile)
           lines == ToCsv(df_merged)
       IN files' = ReplaceOnto(WriteTmp(files, tmp, lines, Len(lines)), tmp, CacheFile)
    /\ wrote' = TRUE
    /\ Finish
    /\ UNCHANGED << sample, inferred, other, requests, cache_paths, remote, rev, revised, start, end, allow, repeat, within,
                    cacheNone, df_cache, freq, missing, fetched_segments, df_merged,
                    preFile, fetchFailed, persistFailed, readerView >>

\* the provider revises its values
Revise ==
    /\ rev < MaxRev
    /\ rev' = rev + 1
    /\ revised' = TRUE
    /\ UNCHANGED << sample, inferred, other, requests, cache_paths, remote, files, pc, start, end, allow, repeat, within, cacheNone,
                    df_cache, freq, missing, fetched_segments, df_merged, df_out,
                    cache_hit, preFile, wrote, fetchFailed, persistFailed,
                    readerView >>

Next ==
    \/ \E s \in Days, e \in Days, a \in BOOLEAN : Call(s, e, a)
    \/ \E s \in Days, e \in Days : Recall(s, e)
    \/ Return
    \/ Fetch
    \/ FetchFail
    \/ Persist
    \/ Revise

Spec == Init /\ [][Next]_vars

\* ----------------------------------------------------- the save, by steps
\* _save_cache, df.to_csv(tmp): the temporary file is created or truncated
\* and a part of its lines is on disk
WriteBegin ==
    /\ pc = "save"
    /\ LET tmp == SaveTmpPath(CacheFile)
           lines == ToCsv(df_merged)
       IN /\ \E k \in 0..(Len(lines) - 1) : files' = WriteTmp(files, tmp, lines, k)
          /\ wrote' = (wrote \/ files'[CacheFile] # files[CacheFile])
    /\ pc' = "writing"
    /\ UNCHANGED << sample, inferred, other, requests, cache_paths, remote, rev, revised, start, end, allow, repeat, within,
                    cacheNone, df_cache, freq, missing, fetched_segments, df_merged,
                    df_out, cache_hit, preFile, fetchFailed, persistFailed,
                    readerView >>

\* df.to_csv(tmp) returns: every line is in the temporary file
WriteEnd ==
    /\ pc = "writing"
    /\ LET lines == ToCsv(df_merged)
       IN files' = WriteTmp(files, SaveTmpPath(CacheFile), lines, Len(lines))
    /\ wrote' = (wrote \/ files'[CacheFile] # files[CacheFile])
    /\ pc' = "replace"
    /\ UNCHANGED << sample, inferred, other, requests, cache_paths, remote, rev, revised, start, end, allow, repeat, within,
                    cacheNone, df_cache, freq, missing, fetched_segments, df_merged,
                    df_out, cache_hit, preFile, fetchFailed, persistFailed,
                    readerView >>

\* tmp.replace(path), then the rest of the call
Replace ==
    /\ pc = "replace"
    /\ files[SaveTmpPath(CacheFile)].exists
    /\ files' = ReplaceOnto(files, SaveTmpPath(CacheFile), CacheFile)
    /\ wrote' = TRUE
    /\ Finish
    /\ UNCHANGED << sample, inferred, other, requests, cache_paths, remote, rev, revised, start, end, allow, repeat, within,
                    cacheNone, df_cache, freq, missing, fetched_segments, df_merged,
                    preFile, fetchFailed, persistFailed, readerView >>

\* to_csv (opening the file, writing it) or replace raises: the exception
\* propagates, the files stay as they are
PersistFail ==
    /\ pc \in {"save", "writing", "replace"}
    /\ persistFailed' = TRUE
    /\ pc' = "persist_error"
    /\ UNCHANGED << sample, inferred, other, requests, cache_paths, remote, rev, revised, files, start, end, allow, repeat, within,
                    cacheNone, df_cache, freq, missing, fetched_segments, df_merged,
                    df_out, cache_hit, preFile, wrote, fetchFailed, readerView >>

\* the process is interrupted during the save
Crash ==
    /\ pc \in {"save", "writing", "replace"}
    /\ pc' = "crashed"
    /\ UNCHANGED << sample, inferred, other, requests, cache_paths, remote, rev, revised, files, start, end, allow, repeat, within,
                    cacheNone, df_cache, freq, missing, fetched_segments, df_merged,
                    df_out, cache_hit, preFile, wrote, fetchFailed, persistFailed,
                    readerView >>

\* another reader's _load_cache of the same cache path: it opens the file the
\* path names at that moment and reads that file to its end
ReaderLoad ==
    /\ LET got == LoadCache(files, CacheFile)
       IN readerView' = [loaded |-> TRUE, none |-> got.none, raw |-> got.raw,
                         complete |-> got.complete]
    /\ readerView' # readerView
    /\ UNCHANGED << sample, inferred, other, requests, cache_paths, remote, rev, revised, files, pc, start, end, allow, repeat,
                    within, cacheNone, df_cache, freq, missing, fetched_segments,
                    df_merged, df_out, cache_hit, preFile, wrote, fetchFailed,
                    persistFailed >>

\* the tables a call can hold when it saves: what one fetch of a provider
\* with one series gives, normalised
SaveTables ==
    {NormalizeDf(FetchTimeseries(p, v, s, e)) :
        p \in {q \in Providers : ~q.multi}, v \in Values, s \in Days, e \in Days}

\* a call at the point where it saves its merged table over the cache file
\* an earlier call left (or over none)
InitSave ==
    /\ remote \in {q \in Providers : ~q.multi /\ ~q.wide /\ q.days = Days}
    /\ rev = 1
    /\ revised = FALSE
    /\ df_merged \in SaveTables
    /\ \E old \in SaveTables :
          /\ files \in {[p \in Paths |-> NoFile],
                        [p \in Paths |-> IF p = CacheFile THEN FileOf(old) ELSE NoFile]}
          /\ preFile = files[CacheFile]
    /\ pc = "save"
    /\ Locals0

NextSave ==
    \/ WriteBegin
    \/ WriteEnd
    \/ Replace
    \/ PersistFail
    \/ Crash
    \/ ReaderLoad

SpecSave == InitSave /\ [][NextSave]_vars

\* ------------------------------------- damaged caches, foreign batches
\* the clients of one series: the date column named date, period (an
\* alternate name) or day (not a name the normalisation knows)
DataProviders ==
    [days : {Days, Days \ {Min(Days)}}, multi : {FALSE}, wide : {FALSE},
     col : {"date", "period", "day"}]

\* cache files as something else than the engine can leave them: without a
\* byte (read_csv raises), a CSV file of other columns with and without rows,
\* a file whose dates do not parse
EmptyFile == [exists |-> TRUE, lines |-> <<>>, complete |-> TRUE]

ForeignFile ==
    [exists |-> TRUE, complete |-> TRUE,
     lines |-> << [text |-> <<"header", 0>>], [text |-> <<"n/a", 0>>] >>]

ForeignHeaderFile ==
    [exists |-> TRUE, complete |-> TRUE, lines |-> << [text |-> <<"header", 0>>] >>]

UndatedFile ==
    [exists |-> TRUE, complete |-> TRUE,
     lines |-> << Header, [date |-> <<"n/a", 0>>, series |-> NoSeries, value |-> 1] >>]

DamagedFiles == {EmptyFile, ForeignFile, ForeignHeaderFile, UndatedFile}

\* a cache directory found with no cache file, a damaged one or one an
\* earlier call saved
InitData ==
    /\ remote \in DataProviders
    /\ rev = 1
    /\ revised = FALSE
    /\ \E f \in {NoFile} \cup DamagedFiles \cup {FileOf(tb) : tb \in SaveTables} :
          files = [p \in Paths |-> IF p = CacheFile THEN f ELSE NoFile]
    /\ pc = "idle"
    /\ df_merged = <<>>
    /\ preFile = NoFile
    /\ Locals0

NextData ==
    \/ \E s \in Days, e \in Days, a \in BOOLEAN : Call(s, e, a)
    \/ Fetch
    \/ NormalizeFail
    \/ Persist
    \/ Return

SpecData == InitData /\ [][NextData]_vars

\* ------------------------------------------------- resolving cache paths
MetricKeys == UNION {[1..n -> {"a", "/", "_"}] : n \in 1..MaxKeyLen}

FacetKeys == {<<"a">>, <<"b">>}

FacetValues == {<<" ">>, <<"_">>}

\* the facet mappings of at most two facets, in each insertion order
PartsDicts ==
    {<<>>}
    \cup {<< <<k, v>> >> : k \in FacetKeys, v \in FacetValues}
    \cup {d \in (FacetKeys \X FacetValues) \X (FacetKeys \X FacetValues) :
             d[1][1] # d[2][1]}

RequestKeys == [metric_key : MetricKeys, parts : PartsDicts]

\* two requests, their paths not resolved yet
InitPath ==
    /\ requests \in RequestKeys \X RequestKeys
    /\ cache_paths = << NoPath, NoPath >>
    /\ remote \in {q \in Providers : ~q.multi /\ ~q.wide /\ q.days = Days}
    /\ rev = 1
    /\ revised = FALSE
    /\ files = [p \in Paths |-> NoFile]
    /\ pc = "idle"
    /\ df_merged = <<>>
    /\ preFile = NoFile
    /\ start = 1 /\ end = 1 /\ allow = TRUE
    /\ repeat = FALSE /\ within = FALSE
    /\ cacheNone = TRUE
    /\ df_cache = <<>>
    /\ freq = NoFreq
    /\ missing = <<>>
    /\ fetched_segments = <<>>
    /\ df_out = <<>>
    /\ cache_hit = FALSE
    /\ wrote = FALSE
    /\ fetchFailed = FALSE
    /\ persistFailed = FALSE
    /\ readerView = NoView
    /\ sample = NoSample
    /\ inferred = [base |-> NoResult, standalone |-> NoResult]
    /\ other = NoCall

\* cache_path = self._cache_path(metric_key, cache_key_parts) of request i
Resolve(i) ==
    /\ cache_paths[i] = NoPath
    /\ cache_paths' = [cache_paths EXCEPT
                          ![i] = CachePath(requests[i].metric_key, requests[i].parts)]
    /\ UNCHANGED << sample, inferred, other, requests, remote, rev, revised, files,
                    pc, start, end, allow, repeat, within, cacheNone, df_cache, freq, missing,
                    fetched_segments, df_merged, df_out, cache_hit, preFile, wrote,
                    fetchFailed, persistFailed, readerView >>

NextPath == \E i \in 1..2 : Resolve(i)

SpecPath == InitPath /\ [][NextPath]_vars

\* ------------------------------------------------ inferring frequencies
MaxDeltas == 3
MaxRegular == 13
MaxScattered == 5
LowThreshold == 3

\* the day-deltas of the short samples: a repeated date, the steps of the
\* cadences and their neighbours
Deltas == {0, 1, 2, 7, 27, 28, 31, 32}

RegularSteps == {1, 7, 30}

\* the dates that begin at day 1 and go on by the given deltas
RECURSIVE DatesByDeltas(_, _)
DatesByDeltas(from, deltas) ==
    IF deltas = <<>> THEN <<from>>
    ELSE <<from>> \o DatesByDeltas(from + Head(deltas), Tail(deltas))

SampleDates ==
    {DatesByDeltas(1, ds) : ds \in UNION {[1..n -> Deltas] : n \in 0..MaxDeltas}}
    \cup {DatesByDeltas(1, [i \in 1..(n - 1) |-> s]) : n \in 2..MaxRegular, s \in RegularSteps}
    \cup {DatesByDeltas(1, [i \in 1..k |-> i]) : k \in 2..MaxScattered}

FrameOf(dates) == [i \in 1..Len(dates) |-> [date |-> dates[i], series |-> NoSeries, value |-> 1]]

\* frames of these dates: in order, newest first, with a row whose date did
\* not parse; and the frame without rows
SampleFrames ==
    {<<>>}
    \cup {FrameOf(ds) : ds \in SampleDates}
    \cup {Reverse(FrameOf(ds)) : ds \in SampleDates}
    \cup {FrameOf(ds) \o FrameOf(<<NaT>>) : ds \in SampleDates}

InitFreq ==
    /\ sample \in [rows : SampleFrames, min_points : {LowThreshold, MinPoints}]
    /\ inferred = [base |-> NoResult, standalone |-> NoResult]
    /\ other = NoCall
    /\ requests = << PlainRequest, PlainRequest >>
    /\ cache_paths = << NoPath, NoPath >>
    /\ remote \in {q \in Providers : ~q.multi /\ ~q.wide /\ q.days = Days}
    /\ rev = 1
    /\ revised = FALSE
    /\ files = [p \in Paths |-> NoFile]
    /\ pc = "idle"
    /\ df_merged = <<>>
    /\ preFile = NoFile
    /\ start = 1 /\ end = 1 /\ allow = TRUE
    /\ repeat = FALSE /\ within = FALSE
    /\ cacheNone = TRUE
    /\ df_cache = <<>>
    /\ freq = NoFreq
    /\ missing = <<>>
    /\ fetched_segments = <<>>
    /\ df_out = <<>>
    /\ cache_hit = FALSE
    /\ wrote = FALSE
    /\ fetchFailed = FALSE
    /\ persistFailed = FALSE
    /\ readerView = NoView

UnchangedByInference ==
    UNCHANGED << sample, other, requests, cache_paths, remote, rev, revised, files,
                 pc, start, end, allow, repeat, within, cacheNone, df_cache, freq,
                 missing, fetched_segments, df_merged, df_out, cache_hit, preFile,
                 wrote, fetchFailed, persistFailed, readerView >>

\* self._infer_frequency_daily_base(df, min_points=...)
InferBase ==
    /\ inferred.base = NoResult
    /\ inferred' = [inferred EXCEPT
                       !.base = InferFrequencyDailyBase(sample.rows, sample.min_points)]
    /\ UnchangedByInference

\* infer_frequency_daily_base(df, min_points=...) of utils/frequency.py
InferStandalone ==
    /\ inferred.standalone = NoResult
    /\ inferred' = [inferred EXCEPT
                       !.standalone = InferFrequencyStandalone(sample.rows, sample.min_points)]
    /\ UnchangedByInference

NextFreq == InferBase \/ InferStandalone

SpecFreq == InitFreq /\ [][NextFreq]_vars

\* ------------------------------------------- two calls for the same key
\* A second thread's _cached_timeseries for the same series key and facets:
\* its locals are the record other.  Both calls begin before either has
\* replaced the cache file; the steps that interleave are the load with the
\* gap detection, each fetch with its merge, to_csv and replace.
Unchanged1 ==
    UNCHANGED << pc, start, end, allow, repeat, within, cacheNone, df_cache, freq,
                 missing, fetched_segments, df_merged, df_out, cache_hit, preFile,
                 wrote, fetchFailed, persistFailed, readerView >>

UnchangedShared ==
    UNCHANGED << sample, inferred, requests, cache_paths, remote, rev, revised >>

\* the other call up to its first fetch
OtherCall(s, e, a) ==
    /\ other.pc = "idle"
    /\ ~wrote
    /\ LET start_ts == NormDate(s)
           end_ts == NormDate(e)
           loaded == LoadCache(files, CacheFile)
           raises == ~loaded.none /\ loaded.raw # <<>>
                     /\ ~NormalizeTimeseriesDf(loaded.raw).ok
           cache == IF ~loaded.none /\ loaded.raw # <<>> /\ ~raises
                    THEN NormalizeDf(loaded.raw) ELSE <<>>
           f == IF ~loaded.none /\ cache # <<>>
                THEN InferFrequencyDailyBase(cache, MinPoints) ELSE NoFreq
           miss == MissingSegments(loaded.none, cache, start_ts, end_ts, f, a)
           over == miss = <<>> /\ ~MustPersist(<<>>, loaded.none)
       IN other' = [pc |-> IF raises THEN "cache_error"
                           ELSE IF miss # <<>> THEN "fetch"
                           ELSE IF over THEN "done" ELSE "save",
                    start |-> start_ts, end |-> end_ts, allow |-> a,
                    cacheNone |-> loaded.none, df_cache |-> cache, freq |-> f,
                    missing |-> IF raises THEN <<>> ELSE miss,
                    fetched_segments |-> <<>>, df_merged |-> cache,
                    preFile |-> files[CacheFile], wrote |-> FALSE]
    /\ UNCHANGED files
    /\ Unchanged1 /\ UnchangedShared

\* one turn of the other call's loop
OtherFetch ==
    /\ other.pc = "fetch"
    /\ LET seg == NextSegment(other.missing, other.fetched_segments)
           batch == FetchTimeseries(remote, rev, seg[1], seg[2])
           df_new == NormalizeDf(batch)
           log == Append(other.fetched_segments,
                         [start |-> seg[1], end |-> seg[2], rows |-> Len(df_new)])
       IN /\ NormalizeTimeseriesDf(batch).ok
          /\ other' = [other EXCEPT
                 !.fetched_segments = log,
                 !.df_merged = MergeCache(other.cacheNone /\ other.fetched_segments = <<>>,
                                          other.df_merged, df_new),
                 !.pc = IF Len(log) < Len(other.missing) THEN "fetch"
                        ELSE IF MustPersist(log, other.cacheNone) THEN "save"
                        ELSE "done"]
    /\ UNCHANGED files
    /\ Unchanged1 /\ UnchangedShared

\* the other call's df.to_csv(tmp)
OtherWrite ==
    /\ other.pc = "save"
    /\ LET lines == ToCsv(other.df_merged)
       IN files' = WriteTmp(files, SaveTmpPath(CacheFile), lines, Len(lines))
    /\ other' = [other EXCEPT !.pc = "replace"]
    /\ Unchanged1 /\ UnchangedShared

\* the other call's tmp.replace(path)
OtherReplace ==
    /\ other.pc = "replace"
    /\ files[SaveTmpPath(CacheFile)].exists
    /\ files' = ReplaceOnto(files, SaveTmpPath(CacheFile), CacheFile)
    /\ other' = [other EXCEPT !.pc = "done", !.wrote = TRUE]
    /\ Unchanged1 /\ UnchangedShared

\* the other call's tmp.replace(path) when the temporary name is gone:
\* FileNotFoundError, which propagates
OtherReplaceMissing ==
    /\ other.pc = "replace"
    /\ ~files[SaveTmpPath(CacheFile)].exists
    /\ other' = [other EXCEPT !.pc = "persist_error"]
    /\ UNCHANGED files
    /\ Unchanged1 /\ UnchangedShared

\* this call begins while the other has not replaced the cache file
CallBeside(s, e, a) == ~other.wrote /\ Call(s, e, a)

\* this call's df.to_csv(tmp), whole
Write ==
    /\ pc = "save"
    /\ LET lines == ToCsv(df_merged)
       IN files' = WriteTmp(files, SaveTmpPath(CacheFile), lines, Len(lines))
    /\ pc' = "replace"
    /\ UNCHANGED << other, start, end, allow, repeat, within, cacheNone, df_cache, freq,
                    missing, fetched_segments, df_merged, df_out, cache_hit, preFile,
                    wrote, fetchFailed, persistFailed, readerView >>
    /\ UnchangedShared

\* this call's tmp.replace(path) when the temporary name is gone:
\* FileNotFoundError, which propagates
ReplaceMissing ==
    /\ pc = "replace"
    /\ ~files[SaveTmpPath(CacheFile)].exists
    /\ persistFailed' = TRUE
    /\ pc' = "persist_error"
    /\ UNCHANGED << other, files, start, end, allow, repeat, within, cacheNone, df_cache,
                    freq, missing, fetched_segments, df_merged, df_out, cache_hit,
                    preFile, wrote, fetchFailed, readerView >>
    /\ UnchangedShared

\* the cache files the two calls can find: none, or the table an earlier
\* call saved
FoundTables ==
    {NormalizeDf(FetchTimeseries(p, 1, s, e)) :
        p \in {q \in Providers : ~q.multi /\ ~q.wide}, s \in Days, e \in Days}

InitTwo ==
    /\ remote \in {q \in Providers : ~q.multi /\ ~q.wide}
    /\ rev = 1
    /\ revised = FALSE
    /\ \E old \in FoundTables :
          files \in {[p \in Paths |-> NoFile],
                     [p \in Paths |-> IF p = CacheFile THEN FileOf(old) ELSE NoFile]}
    /\ pc = "idle"
    /\ df_merged = <<>>
    /\ preFile = NoFile
    /\ Locals0

NextTwo ==
    \/ \E s \in Days, e \in Days, a \in BOOLEAN : CallBeside(s, e, a)
    \/ Fetch
    \/ Write
    \/ Replace
    \/ ReplaceMissing
    \/ \E s \in Days, e \in Days, a \in BOOLEAN : OtherCall(s, e, a)
    \/ OtherFetch
    \/ OtherWrite
    \/ OtherReplace
    \/ OtherReplaceMissing

SpecTwo == InitTwo /\ [][NextTwo]_vars

\* ----------------------------------------------------------------- claims
\* the cache file's rows with their dates parsed, in file order
PersistedRows ==
    LET raw == LoadCache(files, CacheFile).raw
    IN [i \in 1..Len(raw) |-> [raw[i] EXCEPT !.date = ToDatetime(raw[i].date)]]

RowKey(r) == <<r.date, r.series>>

Keys(rows) == {RowKey(rows[i]) : i \in 1..Len(rows)}

\* the value of the last row of rows that has key k
LastValue(rows, k) ==
    rows[Max({i \in 1..Len(rows) : RowKey(rows[i]) = k})].value

\* The loaded cache covers the window under the policy of this call: it has a
\* row dated start and a row dated end and, when the daily gap fill is
\* allowed and the cache's cadence is daily, a row for every day between.
Covered ==
    /\ start \in Dates(df_cache)
    /\ end \in Dates(df_cache)
    /\ (allow /\ freq.freq = "daily") => \A d \in start..end : d \in Dates(df_cache)

\* C1 as stated: a call repeated at once with the same arguments, the provider
\* not having changed, makes no fetch call and reports cache_hit = true.
C1_RepeatIsCacheHit ==
    repeat => /\ fetched_segments = <<>>
              /\ pc = "done" => cache_hit

\* C1 as amended: the repeated call makes no fetch call and reports
\* cache_hit = true when the table the first call left covers the window
\* (rows dated start and end; every day of the window under the daily gap
\* fill), and fetches again when it does not.
C1_RepeatIsCacheHitWhenCovered ==
    repeat => IF Covered
              THEN pc = "done" /\ fetched_segments = <<>> /\ cache_hit
              ELSE missing # <<>> /\ ~cache_hit

C1_Witness ==
    /\ repeat /\ pc = "done" /\ cache_hit /\ fetched_segments = <<>>
    /\ Len(df_cache) >= 2 /\ df_out = df_cache

\* C2 as stated: the call that follows a successful call for [start,end],
\* with the same flag and a window inside [start,end], fetches no segment.
C2_SubRangeFetchesNothing ==
    within => fetched_segments = <<>>

\* C2 as amended: a call for a window start <= end (a later call for a
\* sub-range among them) fetches no segment exactly when the cache it loads
\* covers its window under its policy; what the provider did not return
\* before is asked for again.
C2_NoSegmentsIffCovered ==
    (pc # "idle" /\ start <= end) => ((missing = <<>>) <=> Covered)

C2_Witness ==
    /\ within /\ pc = "done" /\ fetched_segments = <<>> /\ cache_hit
    /\ Cardinality(Dates(df_cache)) > end - start + 1

\* C3: when a fetch of the call raises, at the first segment or a later one,
\* the call ends with the error, the cache file was not written by the call
\* and is what it was before the call; the batches already merged are not
\* saved.
C3_FetchFailureLeavesCache ==
    fetchFailed => /\ pc = "fetch_error"
                   /\ ~wrote
                   /\ files[CacheFile] = preFile
                   /\ ~files[SaveTmpPath(CacheFile)].exists
                      \/ files[SaveTmpPath(CacheFile)].lines # ToCsv(df_merged)
                      \/ df_merged = df_cache

C3_Witness ==
    /\ fetchFailed /\ Len(fetched_segments) >= 1 /\ Len(missing) >= 2
    /\ fetched_segments[1].rows >= 1 /\ df_merged # df_cache
    /\ preFile.exists /\ files[CacheFile] = preFile

\* the table a reader gets from a complete file holding rows
ViewOf(file) == LoadCache([p \in Paths |-> file], CacheFile)

\* C4: when the save raises, while the temporary file is opened or written or
\* at the replace, the call ends with the error and the cache file is what it
\* was before the call.
C4_PersistFailureLeavesCache ==
    persistFailed => /\ pc = "persist_error"
                     /\ files[CacheFile] = preFile
                     /\ ~wrote

C4_Witness ==
    /\ persistFailed /\ preFile.exists /\ files[CacheFile] = preFile
    /\ files[SaveTmpPath(CacheFile)].exists
    /\ ~files[SaveTmpPath(CacheFile)].complete
    /\ Len(files[SaveTmpPath(CacheFile)].lines) >= 2
    /\ preFile # FileOf(df_merged)

\* C5: whatever the point of the save at which another reader loads the cache
\* path, and also after the writer was interrupted, the reader gets a
\* completely written file: the table of before the save or the new one.
C5_ReaderSeesWholeTable ==
    readerView.loaded =>
        /\ readerView.complete
        /\ \/ /\ readerView.none = ViewOf(preFile).none
              /\ readerView.raw = ViewOf(preFile).raw
           \/ /\ ~readerView.none
              /\ readerView.raw = ViewOf(FileOf(df_merged)).raw
              /\ wrote

C5_Witness ==
    /\ readerView.loaded /\ ~readerView.none /\ readerView.raw # <<>>
    /\ pc = "crashed"
    /\ files[SaveTmpPath(CacheFile)].exists
    /\ ~files[SaveTmpPath(CacheFile)].complete
    /\ Len(files[SaveTmpPath(CacheFile)].lines) >= 2
    /\ preFile # FileOf(df_merged)

\* C6: a merge step gives a table with the keys of the old table and of the
\* batch; a key of the batch has the batch's (last) value, also when an
\* earlier batch of the same call or the old cache had it; a key of the old
\* table alone keeps its value.
C6_LastWriteWins ==
    [][ (pc = "fetch" /\ fetched_segments' # fetched_segments) =>
        LET old == IF MergedNone THEN <<>> ELSE df_merged
            seg == missing[Len(fetched_segments) + 1]
            new == NormalizeDf(FetchTimeseries(remote, rev, seg[1], seg[2]))
            res == df_merged'
        IN /\ Keys(res) = Keys(old) \cup Keys(new)
           /\ Len(res) = Cardinality(Keys(res))
           /\ \A i \in 1..Len(res) :
                 res[i].value = IF RowKey(res[i]) \in Keys(new)
                                THEN LastValue(new, RowKey(res[i]))
                                ELSE LastValue(old, RowKey(res[i]))
      ]_vars

\* two segments fetched in one call, both with the revised day, which the
\* cache held at its old value: the table has the revised value
C6_Witness ==
    /\ Len(fetched_segments) = 2
    /\ fetched_segments[1].end = RevisedDay /\ fetched_segments[2].start = RevisedDay
    /\ \E i \in 1..Len(df_cache) :
          df_cache[i].date = RevisedDay /\ df_cache[i].value = 1
    /\ \E i \in 1..Len(df_merged) :
          df_merged[i].date = RevisedDay /\ df_merged[i].value = 2
    /\ Len(df_merged) >= 3

\* C7: the cache file's table is sorted ascending by date and has no two rows
\* of one dedupe key ((date, series) with a series column, (date) without);
\* without a series column its dates are strictly ascending.
C7_TableSortedUnique ==
    LET t == PersistedRows
        key(r) == IF HasSeriesCol(t) THEN <<r.date, r.series>> ELSE <<r.date>>
    IN \A i \in 1..Len(t) : \A j \in (i + 1)..Len(t) :
          /\ t[i].date <= t[j].date
          /\ key(t[i]) # key(t[j])
          /\ ~HasSeriesCol(t) => t[i].date < t[j].date

C7_Witness ==
    /\ HasSeriesCol(PersistedRows) /\ Len(PersistedRows) >= 6
    /\ pc = "done" /\ Len(fetched_segments) = 2 /\ preFile.exists

\* C8 as stated: a call whose end is before its start is rejected with an
\* error before the cache is read, a fetch is made or a file is written.
C8_InvalidRangeRejected ==
    (pc # "idle" /\ end < start) =>
        /\ pc = "invalid_range_error"
        /\ fetched_segments = <<>>
        /\ ~wrote

\* C9 as stated: no segment to fetch contains a date the cache holds when
\* the call starts.
C9_SegmentsHoldNoCachedDate ==
    pc # "idle" =>
        \A i \in 1..Len(missing) : \A d \in missing[i][1]..missing[i][2] :
            d \notin Dates(df_cache)

\* C10: the frame a successful call returns is the rows of the merged table,
\* which is the table in the cache file, dated within [start,end], each once,
\* in ascending date order.
C10_ReturnsExactWindow ==
    pc = "done" =>
        LET inside == {i \in 1..Len(df_merged) :
                          start <= df_merged[i].date /\ df_merged[i].date <= end}
        IN /\ NormalizeDf(LoadCache(files, CacheFile).raw) = df_merged
           /\ Len(df_out) = Cardinality(inside)
           /\ SeqToSet(df_out) = {df_merged[i] : i \in inside}
           /\ \A i \in 1..Len(df_out) : start <= df_out[i].date /\ df_out[i].date <= end
           /\ \A i \in 1..(Len(df_out) - 1) : df_out[i].date <= df_out[i + 1].date

C10_Witness ==
    /\ pc = "done" /\ remote.wide /\ Len(fetched_segments) >= 1
    /\ df_out # <<>> /\ Len(df_out) < Len(df_merged)
    /\ \E i \in 1..Len(df_merged) : df_merged[i].date > end
    /\ \E i \in 1..Len(df_merged) : df_merged[i].date < start

\* C11: the report of a successful call has cache_hit = true exactly when the
\* call fetched no segment and the cache file existed before the call; with a
\* fetch call made, or without a cache file, cache_hit is false.
C11_CacheHitIffNoFetchAndCache ==
    /\ pc = "done" => (cache_hit <=> (fetched_segments = <<>> /\ preFile.exists))
    /\ (fetched_segments # <<>> \/ (pc # "idle" /\ ~preFile.exists)) => ~cache_hit

C11_Witness ==
    /\ pc = "done" /\ preFile.exists /\ df_cache # <<>>
    /\ fetched_segments # <<>> /\ ~cache_hit
    /\ fetched_segments[1].rows = 0

\* C12: a successful call writes the cache file exactly when it fetched a
\* segment or no cache file existed before it; the file then holds the merged
\* table; on a cache hit the file is not written and is what it was.
C12_PersistIffFetchedOrNoCache ==
    pc = "done" =>
        /\ wrote <=> (fetched_segments # <<>> \/ ~preFile.exists)
        /\ wrote => files[CacheFile] = FileOf(df_merged)
        /\ ~wrote => files[CacheFile] = preFile
        /\ cache_hit => (~wrote /\ files[CacheFile] = preFile)
        /\ ~files[SaveTmpPath(CacheFile)].exists

C12_Witness ==
    /\ pc = "done" /\ cache_hit /\ ~wrote /\ preFile.exists
    /\ files[CacheFile] = preFile /\ rev > 1 /\ revised
    /\ \E i \in 1..Len(df_out) : df_out[i].date = RevisedDay /\ df_out[i].value = 1

\* the table of a cache file: its rows with their dates parsed
TableOf(file) ==
    LET raw == ViewOf(file).raw
    IN [i \in 1..Len(raw) |-> [raw[i] EXCEPT !.date = ToDatetime(raw[i].date)]]

\* the rows the fetch calls logged in segs can have returned, normalised
FetchedRows(segs, upto) ==
    UNION {SeqToSet(NormalizeDf(FetchTimeseries(remote, v, segs[i].start, segs[i].end))) :
              i \in 1..Len(segs), v \in 1..upto}

\* C13: a step that changes an existing cache file leaves a cache file; every
\* key of the old table is a key of the new one; a key whose value changed
\* has the value of a row of that key fetched in this call.
C13_CacheGrowsMonotonically ==
    [][ files[CacheFile].exists =>
        LET before == TableOf(files[CacheFile])
            after == TableOf(files'[CacheFile])
        IN /\ files'[CacheFile].exists
           /\ Keys(before) \subseteq Keys(after)
           /\ \A k \in Keys(before) :
                 LastValue(after, k) # LastValue(before, k) =>
                    \E r \in FetchedRows(fetched_segments', rev') :
                        RowKey(r) = k /\ r.value = LastValue(after, k)
      ]_vars

\* a save over a cache with rows: keys were added and a value was superseded
C13_Witness ==
    /\ pc = "done" /\ wrote /\ preFile.exists
    /\ Keys(TableOf(preFile)) # {}
    /\ Keys(TableOf(preFile)) # Keys(TableOf(files[CacheFile]))
    /\ Keys(TableOf(preFile)) \subseteq Keys(TableOf(files[CacheFile]))
    /\ \E k \in Keys(TableOf(preFile)) :
          LastValue(TableOf(preFile), k) # LastValue(TableOf(files[CacheFile]), k)

\* the file gives the call no table: it is missing, cannot be read, lacks the
\* date and value columns or has no row with a date
Unusable(file) ==
    \/ ~file.exists
    \/ ViewOf(file).none
    \/ ViewOf(file).raw = <<>>
    \/ MissingColumns(ViewOf(file).raw)
    \/ NormalizeDf(ViewOf(file).raw) = <<>>

\* C14 as stated: a call that finds the cache file missing, unreadable or
\* corrupt (a file that parses but lacks the date and value columns among
\* them) takes the cache as empty and asks for the whole window as one
\* segment; it does not end with an error for the cache.
C14_CorruptCacheNotFatal ==
    (pc # "idle" /\ Unusable(preFile)) =>
        /\ pc # "cache_error"
        /\ df_cache = <<>>
        /\ missing = << <<start, end>> >>

MappingOf(req) == SeqToSet(req.parts)

Resolved == cache_paths[1] # NoPath /\ cache_paths[2] # NoPath

\* C16: two requests with the same metric key and the same facet key/value
\* pairs, given in any order, resolve to the same cache path (a request
\* resolved twice among them).
C16_PathIgnoresFacetOrder ==
    (Resolved /\ requests[1].metric_key = requests[2].metric_key
              /\ MappingOf(requests[1]) = MappingOf(requests[2]))
        => cache_paths[1] = cache_paths[2]

C16_Witness ==
    /\ Resolved
    /\ requests[1].metric_key = requests[2].metric_key
    /\ MappingOf(requests[1]) = MappingOf(requests[2])
    /\ requests[1].parts # requests[2].parts
    /\ requests[1].parts[1][2] # requests[1].parts[2][2]
    /\ cache_paths[1] = cache_paths[2]

\* C17 as stated: two requests whose (metric key, facet mapping) pairs differ
\* resolve to different cache paths.
C17_DifferentKeysDifferentPaths ==
    (Resolved /\ \/ requests[1].metric_key # requests[2].metric_key
                 \/ MappingOf(requests[1]) # MappingOf(requests[2]))
        => cache_paths[1] # cache_paths[2]

\* C18: every fetch call of a call is for the segment that follows the ones
\* logged, in the order of the segment list, which is ascending; its batch is
\* normalised, logged with its bounds and merged in the same turn, before the
\* next call; a call that got through the loop made one fetch call per
\* segment, and the report lists them in the segments' order.
C18_FetchesInSegmentOrder ==
    [][ /\ fetched_segments' # fetched_segments /\ fetched_segments' # <<>> =>
            LET n == Len(fetched_segments)
                seg == missing[n + 1]
                df_new == NormalizeDf(FetchTimeseries(remote, rev, seg[1], seg[2]))
            IN /\ pc = "fetch"
               /\ missing' = missing
               /\ fetched_segments' =
                     Append(fetched_segments,
                            [start |-> seg[1], end |-> seg[2], rows |-> Len(df_new)])
               /\ df_merged' = MergeCache(MergedNone, df_merged, df_new)
               /\ \A i \in 1..n : fetched_segments[i].start < seg[1]
        /\ pc' \in {"save", "done"} =>
              /\ Len(fetched_segments') = Len(missing')
              /\ \A i \in 1..Len(missing') :
                    /\ fetched_segments'[i].start = missing'[i][1]
                    /\ fetched_segments'[i].end = missing'[i][2]
      ]_vars

C18_Witness ==
    /\ pc = "done" /\ Len(missing) = 2 /\ Len(fetched_segments) = 2
    /\ fetched_segments[1].start < fetched_segments[2].start
    /\ fetched_segments[1].rows >= 1 /\ fetched_segments[2].rows >= 1
    /\ remote.multi

\* C19: a call whose loaded cache is empty or has no row dated within
\* [start,end] has exactly one segment to fetch, the whole window, whatever
\* the flag and the cadence; it reports cache_hit = false, and once through
\* the loop it has made exactly one fetch call, for (start, end).
C19_NoRowInWindowIsOneSegment ==
    (pc # "idle" /\ RowsBetween(df_cache, start, end) = <<>>) =>
        /\ missing = << <<start, end>> >>
        /\ ~cache_hit
        /\ pc \in {"save", "done"} =>
              /\ Len(fetched_segments) = 1
              /\ fetched_segments[1].start = start
              /\ fetched_segments[1].end = end

\* a cache of daily cadence, the gap fill allowed, the window beside its rows
C19_Witness ==
    /\ pc = "done" /\ ~cacheNone /\ Len(df_cache) >= 2
    /\ freq.freq = "daily" /\ allow /\ start <= end
    /\ RowsBetween(df_cache, start, end) = <<>>
    /\ Len(fetched_segments) = 1 /\ fetched_segments[1].rows >= 1

\* C20: with a cache of daily cadence and the gap fill allowed, the segments
\* of a window start <= end are the maximal runs of its days without a cached
\* row: together the segments hold exactly the days of the window that are
\* not cached, each runs from an earlier to a later (or the same) day, and
\* between one segment and the next lies at least one (cached) day.
C20_DailyGapsAreMaximalRuns ==
    (pc # "idle" /\ allow /\ freq.freq = "daily" /\ start <= end) =>
        /\ UNION {missing[i][1]..missing[i][2] : i \in 1..Len(missing)}
              = (start..end) \ Dates(df_cache)
        /\ \A i \in 1..Len(missing) : missing[i][1] <= missing[i][2]
        /\ \A i \in 1..(Len(missing) - 1) :
              /\ missing[i][2] + 1 < missing[i + 1][1]
              /\ \E d \in Dates(df_cache) : missing[i][2] < d /\ d < missing[i + 1][1]

C20_Witness ==
    /\ pc # "idle" /\ allow /\ freq.freq = "daily" /\ start <= end
    /\ Len(missing) = 2
    /\ missing[1][1] = start /\ missing[2][2] = end
    /\ Cardinality(Dates(RowsBetween(df_cache, start, end))) >= 2

\* the call uses the edge fill: its cache has a row in the window, and the
\* cadence is not daily or the gap fill is not allowed
EdgeFilled ==
    /\ pc # "idle"
    /\ RowsBetween(df_cache, start, end) # <<>>
    /\ ~(allow /\ freq.freq = "daily")

\* C21: under the edge fill there are at most two segments: one from start
\* to the earliest cached date of the window, there exactly when start is
\* before that date, and one from the latest cached date of the window to
\* end, there exactly when end is after it; no segment holds a date strictly
\* between the two cached dates, and with rows dated start and end there is
\* no segment.
C21_EdgeFillFetchesEndsOnly ==
    EdgeFilled =>
        LET in_win == Dates(RowsBetween(df_cache, start, end))
            first == CHOOSE d \in in_win : \A x \in in_win : d <= x
            last == CHOOSE d \in in_win : \A x \in in_win : d >= x
            lead == {i \in 1..Len(missing) : missing[i] = <<start, first>>}
            trail == {i \in 1..Len(missing) : missing[i] = <<last, end>>}
        IN /\ Len(missing) <= 2
           /\ lead \cup trail = 1..Len(missing)
           /\ (lead # {}) <=> (start < first)
           /\ (trail # {}) <=> (end > last)
           /\ Cardinality(lead) <= 1 /\ Cardinality(trail) <= 1
           /\ \A i \in 1..Len(missing) : \A d \in missing[i][1]..missing[i][2] :
                 ~(first < d /\ d < last)
           /\ (start \in in_win /\ end \in in_win) => missing = <<>>

\* a cache of daily cadence, the gap fill not allowed, room on both sides of
\* its rows in the window
C21_Witness ==
    /\ EdgeFilled /\ Len(missing) = 2 /\ freq.freq = "daily" /\ ~allow
    /\ \E a \in Dates(df_cache), b \in Dates(df_cache) :
          start < a /\ a < b /\ b < end

\* C22 as stated: the segments to fetch have start <= end, no date lies in
\* two of them, and they are in ascending order.
C22_SegmentsDisjointAscending ==
    (pc # "idle" /\ start <= end) =>
        /\ \A i \in 1..Len(missing) : missing[i][1] <= missing[i][2]
        /\ \A i \in 1..Len(missing) : \A j \in (i + 1)..Len(missing) :
              /\ missing[i][1] < missing[j][1]
              /\ (missing[i][1]..missing[i][2]) \cap (missing[j][1]..missing[j][2]) = {}

\* C23 as stated: the cadence the call uses and reports is the one inferred
\* from the cached rows dated within [start,end], and none when there is no
\* such row.
C23_FrequencyFromWindowOnly ==
    pc # "idle" =>
        freq = IF RowsBetween(df_cache, start, end) # <<>>
               THEN InferFrequencyDailyBase(RowsBetween(df_cache, start, end), MinPoints)
               ELSE NoFreq

\* the distinct dates of the sample, the delta from each to the next, and the
\* deltas that occur most often
SampleDays == {sample.rows[i].date : i \in 1..Len(sample.rows)} \ {NaT}

DeltaAfter(d) == (CHOOSE x \in SampleDays : x > d /\ \A y \in SampleDays : y > d => x <= y) - d

DeltaCount(v) == Cardinality({d \in SampleDays : (\E x \in SampleDays : x > d) /\ DeltaAfter(d) = v})

SampleDeltas == {DeltaAfter(d) : d \in {x \in SampleDays : \E y \in SampleDays : y > x}}

ModalDeltas == {v \in SampleDeltas : \A w \in SampleDeltas : DeltaCount(w) <= DeltaCount(v)}

Results == {r \in {inferred.base, inferred.standalone} : r # NoResult}

\* C24: for a sample of at least two distinct dates, each inferencer's
\* cadence is that of a most frequent delta m: daily for 1, weekly for 7,
\* monthly for 28..31, irregular for any other, and then step_days is m.
C24_CadenceFollowsModalDelta ==
    Cardinality(SampleDays) >= 2 =>
        \A r \in Results : \E m \in ModalDeltas :
            /\ (m = 1) <=> (r.freq = "daily")
            /\ (m = 7) <=> (r.freq = "weekly")
            /\ (28 <= m /\ m <= 31) <=> (r.freq = "monthly")
            /\ (m \notin {1, 7} /\ ~(28 <= m /\ m <= 31)) <=> (r.freq = "irregular")
            /\ r.freq = "irregular" => r.step_days = m

\* both inferencers ran on dates whose modal delta is a bound of monthly
C24_Witness ==
    /\ inferred.base # NoResult /\ inferred.standalone # NoResult
    /\ inferred.base.freq = "monthly" /\ inferred.standalone.freq = "monthly"
    /\ ModalDeltas = {31} /\ Cardinality(SampleDays) >= 3

\* C25: for a sample with a positive delta, each inferencer's confidence is
\* count(modal delta) / number of positive deltas, less 1/4 when the sample
\* has fewer distinct dates than the threshold, clamped into [0,1]; three
\* dates 7 days apart give weekly with confidence 3/4 under the default
\* threshold.
C25_ConfidenceIsPenalisedModeShare ==
    /\ Cardinality(SampleDays) >= 2 =>
          \A r \in Results :
              LET total == Cardinality(SampleDays) - 1
                  cnt == CHOOSE c \in 1..total : \E m \in ModalDeltas : DeltaCount(m) = c
                  raw == IF Cardinality(SampleDays) < sample.min_points
                         THEN 4 * cnt - total ELSE 4 * cnt
                  want == IF raw < 0 THEN 0 ELSE IF raw > 4 * total THEN 4 * total ELSE raw
              IN /\ r.confNum * (4 * total) = want * r.confDen
                 /\ 0 <= r.confNum /\ r.confNum <= r.confDen /\ r.confDen > 0
    /\ (sample.rows = FrameOf(<<1, 8, 15>>) /\ sample.min_points = MinPoints) =>
          \A r \in Results : r.freq = "weekly" /\ 4 * r.confNum = 3 * r.confDen

\* a mode share below the penalty: the confidence is clamped to 0
C25_Witness ==
    /\ inferred.base # NoResult /\ inferred.standalone # NoResult
    /\ Cardinality(SampleDays) >= 2 /\ Cardinality(SampleDays) < sample.min_points
    /\ Cardinality(ModalDeltas) >= 5
    /\ inferred.base.confNum = 0 /\ inferred.standalone.confNum = 0

TenWeeklyDates == FrameOf(DatesByDeltas(1, [i \in 1..9 |-> 7]))

\* C26 as stated: ten dates 7 days apart give, under the default threshold,
\* weekly with confidence 1.
C26_TenWeeklyDatesFullConfidence ==
    (sample.rows = TenWeeklyDates /\ sample.min_points = MinPoints) =>
        \A r \in Results : r.freq = "weekly" /\ r.confNum = r.confDen

\* C26 as amended: ten dates 7 days apart give, under the default threshold
\* of 12, weekly with confidence 3/4 (ten is below the threshold, the penalty
\* applies) and sample size 10; the confidence is 1 under a threshold of at
\* most ten, and for twelve such dates under the default threshold.
C26_TenWeeklyDatesPenalised ==
    /\ (sample.rows = TenWeeklyDates /\ sample.min_points = MinPoints) =>
          \A r \in Results :
              r.freq = "weekly" /\ 4 * r.confNum = 3 * r.confDen /\ r.n_points = 10
    /\ (sample.rows = TenWeeklyDates /\ sample.min_points <= 10) =>
          \A r \in Results : r.freq = "weekly" /\ r.confNum = r.confDen
    /\ (sample.rows = FrameOf(DatesByDeltas(1, [i \in 1..11 |-> 7]))
        /\ sample.min_points = MinPoints) =>
          \A r \in Results : r.freq = "weekly" /\ r.confNum = r.confDen

C26_Witness ==
    /\ sample.rows = TenWeeklyDates /\ sample.min_points = MinPoints
    /\ inferred.base # NoResult /\ inferred.standalone # NoResult
    /\ inferred.base.freq = "weekly" /\ inferred.base.confNum < inferred.base.confDen

\* C27: for a sample of fewer than two distinct dates (rows of one date count
\* once, rows without a date not at all) each inferencer reports irregular,
\* confidence 0 and the number of distinct dates as the sample size.
C27_FewDatesAreIrregular ==
    Cardinality(SampleDays) < 2 =>
        \A r \in Results :
            /\ r.freq = "irregular"
            /\ r.confNum = 0
            /\ r.n_points = Cardinality(SampleDays)

\* several rows of one date
C27_Witness ==
    /\ inferred.base # NoResult /\ inferred.standalone # NoResult
    /\ Cardinality(SampleDays) = 1 /\ Len(sample.rows) >= 3
    /\ \A i \in 1..Len(sample.rows) : sample.rows[i].date # NaT
    /\ inferred.base.n_points = 1 /\ inferred.standalone.n_points = 1

\* C29: on one sample and threshold the two inferencers report the same
\* cadence, confidence and sample size; their step_days are the same except
\* for monthly, where the standalone one reports 30 and the cache layer's the
\* modal delta.
C29_InferencersAgree ==
    (inferred.base # NoResult /\ inferred.standalone # NoResult) =>
        LET b == inferred.base
            s == inferred.standalone
        IN /\ b.freq = s.freq
           /\ b.confNum * s.confDen = s.confNum * b.confDen
           /\ b.n_points = s.n_points
           /\ IF b.freq = "monthly"
              THEN s.step_days = 30 /\ b.step_days \in ModalDeltas
              ELSE s.step_days = b.step_days

C29_Witness ==
    /\ inferred.base # NoResult /\ inferred.standalone # NoResult
    /\ inferred.base.freq = "monthly" /\ inferred.base.step_days = 28
    /\ inferred.standalone.step_days = 30
    /\ inferred.base.n_points >= 3

\* the deltas between consecutive dates of the set S that occur most often
GapAfter(S, d) == (CHOOSE x \in S : x > d /\ \A y \in S : y > d => x <= y) - d

GapCount(S, v) == Cardinality({d \in S : (\E x \in S : x > d) /\ GapAfter(S, d) = v})

TiedGaps(S) ==
    LET gaps == {GapAfter(S, d) : d \in {x \in S : \E y \in S : y > x}}
    IN {v \in gaps : \A w \in gaps : GapCount(S, w) <= GapCount(S, v)}

CachedDays == Dates(df_cache) \ {NaT}

\* C30: when two or more deltas of the cached dates are tied for the highest
\* count, the inferred step is the smallest of them; if the tie includes 1
\* the cadence is daily and, with the gap fill allowed, the segments to fetch
\* are those of the daily policy (exactly the days of the window without a
\* cached row), whatever the confidence is.
C30_TieTakesSmallestDelta ==
    (pc \notin {"idle", "cache_error"} /\ Cardinality(TiedGaps(CachedDays)) >= 2) =>
        /\ \A v \in TiedGaps(CachedDays) : freq.step_days <= v
        /\ freq.step_days \in TiedGaps(CachedDays)
        /\ 1 \in TiedGaps(CachedDays) =>
              /\ freq.freq = "daily"
              /\ allow => \A d \in start..end :
                    (d \notin CachedDays) <=>
                        (\E i \in 1..Len(missing) : missing[i][1] <= d /\ d <= missing[i][2])

\* deltas 1 and 2 tied, confidence below one half, a day inside the cached
\* dates is fetched
C30_Witness ==
    /\ pc \notin {"idle", "cache_error"} /\ allow
    /\ TiedGaps(CachedDays) = {1, 2}
    /\ freq.freq = "daily" /\ 2 * freq.confNum < freq.confDen
    /\ \E i \in 1..Len(missing) : \E d \in missing[i][1]..missing[i][2] :
          /\ d \notin CachedDays
          /\ \E a \in CachedDays, b \in CachedDays : a < d /\ d < b

TmpFile == SaveTmpPath(CacheFile)

ReplaceByThis == pc = "replace" /\ pc' = "done"

ReplaceByOther == other.pc = "replace" /\ other'.pc = "done"

\* the dates a call can have in its merged table: those of the cache it
\* loaded and those of the segments it fetched
OwnDates(cache, segs) ==
    Dates(cache) \cup UNION {segs[i][1]..segs[i][2] : i \in 1..Len(segs)}

====
